---- MODULE Spec2Model ----
(***************************************************************************)
(* Model of ml-prims/src/matrix/math.h (namespace MLCommon::Matrix): the   *)
(* elementwise operators power, seqRoot, reciprocal, setSmallValuesZero,   *)
(* ratio, signFlip and the broadcast operator                              *)
(* matrixVectorBinaryDivSkipZero.                                          *)
(*                                                                         *)
(* Every operator launches thrust::for_each over a counting range; the     *)
(* model gives each index of the range a work unit and interleaves the     *)
(* work units' steps.                                                      *)
(*                                                                         *)
(* math_t values are modelled as exact decimal-scaled rationals            *)
(* (n/d) * 10^e together with the IEEE-754 special values -0, +Inf, -Inf   *)
(* and NaN; rounding of the mantissa is not modelled.                      *)
(***************************************************************************)
EXTENDS Integers, Sequences, FiniteSets

(***************************************************************************)
(* math_t                                                                  *)
(***************************************************************************)

\* a value: its kind k ("fin": n/d * 10^e; "nzero": -0; "pinf", "ninf", "nan";
\* "surd": the square root of n/d * 10^e)
Special(kind) == [k |-> kind, n |-> 0, d |-> 1, e |-> 0]

RECURSIVE GCD(_, _)
GCD(a, b) == IF b = 0 THEN a ELSE GCD(b, a % b)

Abs(n) == IF n < 0 THEN -n ELSE n

Zero  == Special("fin")
NZero == Special("nzero")
PInf  == Special("pinf")
NInf  == Special("ninf")
NaN   == Special("nan")

\* n/d * 10^e in normal form: d > 0 coprime to n and to 10, n not a multiple of 10
RECURSIVE Strip(_, _, _)
Strip(n, d, e) ==
    IF n % 10 = 0 THEN Strip(n \div 10, d, e + 1)
    ELSE IF d % 2 = 0 THEN Strip(n * 5, d \div 2, e - 1)
    ELSE IF d % 5 = 0 THEN Strip(n * 2, d \div 5, e - 1)
    ELSE [k |-> "fin", n |-> n, d |-> d, e |-> e]

Fin(n, d, e) ==
    IF n = 0 THEN Zero
    ELSE LET s == IF d < 0 THEN -1 ELSE 1
             g == GCD(Abs(n), Abs(d))
         IN  Strip((s * n) \div g, Abs(d) \div g, e)

Num(n) == Fin(n, 1, 0)

RECURSIVE Pow10(_)
Pow10(k) == IF k = 0 THEN 1 ELSE 10 * Pow10(k - 1)

RECURSIVE Digits(_)
Digits(m) == IF m = 0 THEN 0 ELSE 1 + Digits(m \div 10)

IsNaN(v)    == v.k = "nan"
IsInf(v)    == v.k \in {"pinf", "ninf"}
IsZero(v)   == v.k = "nzero" \/ (v.k = "fin" /\ v.n = 0)
IsFinite(v) == v.k \in {"fin", "nzero"}

\* the sign bit
SignBit(v) == v.k \in {"nzero", "ninf"} \/ (v.k = "fin" /\ v.n < 0)

\* -1, 0, 1 by numeric value (NaN excluded by the callers)
Sgn(v) ==
    IF IsZero(v) THEN 0
    ELSE IF SignBit(v) THEN -1 ELSE 1

SignedZero(neg) == IF neg THEN NZero ELSE Zero
SignedInf(neg)  == IF neg THEN NInf ELSE PInf

\* unary minus: flips the sign bit
Neg(v) ==
    CASE v.k = "nan"   -> NaN
      [] v.k = "pinf"  -> NInf
      [] v.k = "ninf"  -> PInf
      [] v.k = "nzero" -> Zero
      [] v.k = "fin"   -> IF v.n = 0 THEN NZero ELSE [v EXCEPT !.n = -v.n]

\* a < b for finite non-zero a, b of positive sign
LtPos(a, b) ==
    LET k == a.e - b.e IN
    IF k >= 0
    THEN IF k >= Digits(b.n * a.d) THEN FALSE
         ELSE a.n * b.d * Pow10(k) < b.n * a.d
    ELSE IF -k >= Digits(a.n * b.d) THEN TRUE
         ELSE a.n * b.d < b.n * a.d * Pow10(-k)

\* operator< of math_t
Lt(a, b) ==
    IF IsNaN(a) \/ IsNaN(b) THEN FALSE
    ELSE IF a.k = "ninf" THEN b.k # "ninf"
    ELSE IF b.k = "pinf" THEN a.k # "pinf"
    ELSE IF a.k = "pinf" \/ b.k = "ninf" THEN FALSE
    ELSE IF Sgn(a) # Sgn(b) THEN Sgn(a) < Sgn(b)
    ELSE IF Sgn(a) = 0 THEN FALSE
    ELSE IF Sgn(a) = 1 THEN LtPos(a, b)
    ELSE LtPos(Neg(b), Neg(a))

\* operator== of math_t: -0 == 0, NaN equals nothing
Eq(a, b) ==
    IF IsNaN(a) \/ IsNaN(b) THEN FALSE
    ELSE IF IsZero(a) /\ IsZero(b) THEN TRUE
    ELSE a = b

Gt(a, b) == Lt(b, a)
Le(a, b) == Lt(a, b) \/ Eq(a, b)
Ne(a, b) == ~Eq(a, b)

\* operator+ of math_t
Add(a, b) ==
    IF IsNaN(a) \/ IsNaN(b) THEN NaN
    ELSE IF IsInf(a) /\ IsInf(b) THEN (IF a = b THEN a ELSE NaN)
    ELSE IF IsInf(a) THEN a
    ELSE IF IsInf(b) THEN b
    ELSE IF IsZero(a) /\ IsZero(b) THEN SignedZero(SignBit(a) /\ SignBit(b))
    ELSE IF IsZero(a) THEN b
    ELSE IF IsZero(b) THEN a
    ELSE LET e  == IF a.e < b.e THEN a.e ELSE b.e
             na == a.n * Pow10(a.e - e)
             nb == b.n * Pow10(b.e - e)
         IN  Fin(na * b.d + nb * a.d, a.d * b.d, e)

\* operator* of math_t
Mul(a, b) ==
    LET neg == SignBit(a) # SignBit(b) IN
    IF IsNaN(a) \/ IsNaN(b) THEN NaN
    ELSE IF IsInf(a) \/ IsInf(b)
         THEN (IF IsZero(a) \/ IsZero(b) THEN NaN ELSE SignedInf(neg))
    ELSE IF IsZero(a) \/ IsZero(b) THEN SignedZero(neg)
    ELSE Fin(a.n * b.n, a.d * b.d, a.e + b.e)

\* operator/ of math_t
Div(a, b) ==
    LET neg == SignBit(a) # SignBit(b) IN
    IF IsNaN(a) \/ IsNaN(b) THEN NaN
    ELSE IF IsInf(a) THEN (IF IsInf(b) THEN NaN ELSE SignedInf(neg))
    ELSE IF IsInf(b) THEN SignedZero(neg)
    ELSE IF IsZero(b) THEN (IF IsZero(a) THEN NaN ELSE SignedInf(neg))
    ELSE IF IsZero(a) THEN SignedZero(neg)
    ELSE Fin(a.n * b.d, a.d * b.n, a.e - b.e)

IsSquare(m) == \E r \in 0..m : r * r = m
ISqrt(m)    == CHOOSE r \in 0..m : r * r = m

\* sqrt of math_t: NaN below zero, sqrt(-0) = -0; a root that is no decimal-scaled
\* rational is kept as the surd of its radicand
Sqrt(a) ==
    IF IsNaN(a) THEN NaN
    ELSE IF IsZero(a) THEN a
    ELSE IF SignBit(a) THEN NaN
    ELSE IF a.k = "pinf" THEN PInf
    ELSE LET n2 == IF a.e % 2 = 0 THEN a.n ELSE a.n * 10
             e2 == IF a.e % 2 = 0 THEN a.e ELSE a.e - 1
         IN  IF IsSquare(n2) /\ IsSquare(a.d)
             THEN Fin(ISqrt(n2), ISqrt(a.d), e2 \div 2)
             ELSE [a EXCEPT !.k = "surd"]


(***************************************************************************)
(* State                                                                   *)
(***************************************************************************)

VARIABLES
    phase,   \* "idle": no call yet; "running": a for_each is in flight; "returned"
    call,    \* the entry point the caller invoked, with its arguments
    kern,    \* what the lambda handed to the parallel engine captured
    mem,     \* device memory: buffer name -> (index -> math_t)
    mem0,    \* device memory when the current call began
    unit,    \* work unit idx -> its program counter and locals
    ncalls   \* calls begun so far

vars == <<phase, call, kern, mem, mem0, unit, ncalls>>

\* elements per buffer, and the largest len / n_rows * n_cols a caller passes
MaxLen == 2

\* successive calls the caller makes on the same buffers
MaxCalls == 2

Index == 0 .. (MaxLen - 1)

One == Num(1)

\* default of the thres parameter
DefaultThres == Fin(1, 1, -15)

\* the literal of the skip-zero broadcast lambdas
SkipZeroEps == Fin(1, 1, -10)

NoArgs ==
    [fn |-> "none", src |-> "A", dst |-> "A", scalar |-> One, len |-> 0,
     flag |-> FALSE, thres |-> DefaultThres, n_rows |-> 0, n_cols |-> 0,
     rowMajor |-> FALSE]

NoUnits == [idx \in {} |-> 0]

\* a work unit before its first step; acc collects the buffer indices it reads or writes
IdleUnit ==
    [pc |-> "start", i |-> 0, total |-> Zero, max |-> Zero, max_index |-> 0, acc |-> {}]

\* thrust::for_each(counting, counting + n, lambda): one work unit per index
ForEach(n) == [idx \in 0 .. (n - 1) |-> IdleUnit]

AllDone == \A idx \in DOMAIN unit : unit[idx].pc = "done"

Store(m, buf, i, v) == [m EXCEPT ![buf][i] = v]

(***************************************************************************)
(* The lambdas of the elementwise operators                                *)
(***************************************************************************)

PowerLambda(x, scalar) == Mul(Mul(x, x), scalar)

SeqRootLambda(x, scalar) == Sqrt(Mul(x, scalar))

\* a seqRoot that ignores set_neg_zero
SeqRootOutLambdaUnguarded(x, scalar, set_neg_zero) == Sqrt(Mul(x, scalar))

SeqRootOutLambda(x, scalar, set_neg_zero) ==
    IF set_neg_zero
    THEN IF Lt(x, Zero) THEN Zero ELSE Sqrt(Mul(x, scalar))
    ELSE Sqrt(Mul(x, scalar))

\* a reciprocal whose guard is x < thres
ReciprocalLambdaStrict(x, scalar, setzero, thres) ==
    IF setzero
    THEN IF Lt(x, thres) THEN Zero ELSE Div(scalar, x)
    ELSE Div(scalar, x)

ReciprocalLambda(x, scalar, setzero, thres) ==
    IF setzero
    THEN IF Le(x, thres) THEN Zero ELSE Div(scalar, x)
    ELSE Div(scalar, x)

ReciprocalOutLambda(x, scalar) == Div(scalar, x)

\* a clamp that tests the magnitude of x
SetSmallValuesZeroLambdaAbs(x, thres) ==
    IF Le(IF Lt(x, Zero) THEN Neg(x) ELSE x, thres) THEN Zero ELSE x

SetSmallValuesZeroLambda(x, thres) ==
    IF Le(x, thres) THEN Zero ELSE x

\* the lambda a kernel runs on one element
Lambda(k, x) ==
    CASE k.body = "power"              -> PowerLambda(x, k.scalar)
      [] k.body = "seqRoot"            -> SeqRootLambda(x, k.scalar)
      [] k.body = "seqRootOut"         -> SeqRootOutLambda(x, k.scalar, k.flag)
      [] k.body = "reciprocal"         -> ReciprocalLambda(x, k.scalar, k.flag, k.thres)
      [] k.body = "reciprocalOut"      -> ReciprocalOutLambda(x, k.scalar)
      [] k.body = "setSmallValuesZero" -> SetSmallValuesZeroLambda(x, k.thres)

Kernel(body, src, dst, scalar, len, flag, thres) ==
    [src |-> src, dst |-> dst, scalar |-> scalar, len |-> len,
     flag |-> flag, thres |-> thres, body |-> body]

NoKernel == Kernel("none", "A", "A", One, 0, FALSE, DefaultThres)

\* the caller enters entry point c; the entry point hands kernel k to for_each
Enter(c, k, n) ==
    /\ phase = "idle"
    /\ phase' = "running"
    /\ call' = c
    /\ kern' = k
    /\ unit' = ForEach(n)
    /\ mem0' = mem
    /\ ncalls' = ncalls + 1
    /\ UNCHANGED mem

(***************************************************************************)
(* Arguments the caller draws from                                         *)
(***************************************************************************)

Vals    == {Num(-1), NZero, Zero, Fin(1, 2, 0), Num(1), Num(4)}
Scalars == {Num(-1), Zero, Num(1), Num(2)}
Thres   == {Num(-1), Zero, Num(1), DefaultThres}
Lens    == 0 .. MaxLen

(***************************************************************************)
(* Entry points: power, seqRoot, reciprocal, setSmallValuesZero            *)
(***************************************************************************)

\* power(inout, scalar, len)
PowerScalar ==
    \E scalar \in Scalars, len \in Lens :
        Enter([NoArgs EXCEPT !.fn = "power(inout,scalar,len)", !.scalar = scalar, !.len = len],
              Kernel("power", "A", "A", scalar, len, FALSE, DefaultThres), len)

\* power(in, out, scalar, len)
PowerOutScalar ==
    \E scalar \in Scalars, len \in Lens :
        Enter([NoArgs EXCEPT !.fn = "power(in,out,scalar,len)", !.dst = "B",
                             !.scalar = scalar, !.len = len],
              Kernel("power", "A", "B", scalar, len, FALSE, DefaultThres), len)

\* power(inout, len): scalar = 1.0; power(inout, scalar, len)
Power ==
    \E len \in Lens :
        Enter([NoArgs EXCEPT !.fn = "power(inout,len)", !.len = len],
              Kernel("power", "A", "A", One, len, FALSE, DefaultThres), len)

\* power(in, out, len): scalar = 1.0; power(in, out, scalar, len)
PowerOut ==
    \E len \in Lens :
        Enter([NoArgs EXCEPT !.fn = "power(in,out,len)", !.dst = "B", !.len = len],
              Kernel("power", "A", "B", One, len, FALSE, DefaultThres), len)

\* seqRoot(inout, scalar, len)
SeqRootScalar ==
    \E scalar \in Scalars, len \in Lens :
        Enter([NoArgs EXCEPT !.fn = "seqRoot(inout,scalar,len)", !.scalar = scalar, !.len = len],
              Kernel("seqRoot", "A", "A", scalar, len, FALSE, DefaultThres), len)

\* seqRoot(in, out, scalar, len, set_neg_zero = false)
SeqRootOutScalar ==
    \E scalar \in Scalars, len \in Lens, set_neg_zero \in BOOLEAN :
        Enter([NoArgs EXCEPT !.fn = "seqRoot(in,out,scalar,len,set_neg_zero)", !.dst = "B",
                             !.scalar = scalar, !.len = len, !.flag = set_neg_zero],
              Kernel("seqRootOut", "A", "B", scalar, len, set_neg_zero, DefaultThres), len)

\* seqRoot(inout, len): scalar = 1.0; seqRoot(inout, scalar, len)
SeqRoot ==
    \E len \in Lens :
        Enter([NoArgs EXCEPT !.fn = "seqRoot(inout,len)", !.len = len],
              Kernel("seqRoot", "A", "A", One, len, FALSE, DefaultThres), len)

\* seqRoot(in, out, len): scalar = 1.0; seqRoot(in, out, scalar, len)
SeqRootOut ==
    \E len \in Lens :
        Enter([NoArgs EXCEPT !.fn = "seqRoot(in,out,len)", !.dst = "B", !.len = len],
              Kernel("seqRootOut", "A", "B", One, len, FALSE, DefaultThres), len)

\* reciprocal(inout, scalar, len, setzero = false, thres = 1e-15)
ReciprocalScalar ==
    \E scalar \in Scalars, len \in Lens, setzero \in BOOLEAN, thres \in Thres :
        Enter([NoArgs EXCEPT !.fn = "reciprocal(inout,scalar,len,setzero,thres)",
                             !.scalar = scalar, !.len = len, !.flag = setzero, !.thres = thres],
              Kernel("reciprocal", "A", "A", scalar, len, setzero, thres), len)

\* reciprocal(in, out, scalar, len)
ReciprocalOutScalar ==
    \E scalar \in Scalars, len \in Lens :
        Enter([NoArgs EXCEPT !.fn = "reciprocal(in,out,scalar,len)", !.dst = "B",
                             !.scalar = scalar, !.len = len],
              Kernel("reciprocalOut", "A", "B", scalar, len, FALSE, DefaultThres), len)

\* reciprocal(inout, len, setzero = false, thres = 1e-15):
\* scalar = 1.0; reciprocal(inout, scalar, len) -- setzero and thres are not passed on
Reciprocal ==
    \E len \in Lens, setzero \in BOOLEAN, thres \in Thres :
        Enter([NoArgs EXCEPT !.fn = "reciprocal(inout,len,setzero,thres)",
                             !.len = len, !.flag = setzero, !.thres = thres],
              Kernel("reciprocal", "A", "A", One, len, FALSE, DefaultThres), len)

\* reciprocal(in, out, len): scalar = 1.0; reciprocal(in, out, scalar, len)
ReciprocalOut ==
    \E len \in Lens :
        Enter([NoArgs EXCEPT !.fn = "reciprocal(in,out,len)", !.dst = "B", !.len = len],
              Kernel("reciprocalOut", "A", "B", One, len, FALSE, DefaultThres), len)

\* setSmallValuesZero(inout, len, thres = 1e-15)
SetSmallValuesZero ==
    \E len \in Lens, thres \in Thres :
        Enter([NoArgs EXCEPT !.fn = "setSmallValuesZero(inout,len,thres)",
                             !.len = len, !.thres = thres],
              Kernel("setSmallValuesZero", "A", "A", One, len, FALSE, thres), len)

\* one work unit of an elementwise for_each: d_dest[idx] = lambda(d_src[idx])
ElementStep ==
    \E idx \in DOMAIN unit :
        /\ phase = "running"
        /\ unit[idx].pc = "start"
        /\ mem' = Store(mem, kern.dst, idx, Lambda(kern, mem[kern.src][idx]))
        /\ unit' = [unit EXCEPT ![idx].pc = "done"]
        /\ UNCHANGED <<phase, call, kern, mem0, ncalls>>

\* for_each returns once every work unit has run
Return ==
    /\ phase = "running"
    /\ AllDone
    /\ phase' = "returned"
    /\ UNCHANGED <<call, kern, mem, mem0, unit, ncalls>>

\* the caller applies setSmallValuesZero again, with the same arguments
SetSmallValuesZeroAgain ==
    /\ phase = "returned"
    /\ call.fn = "setSmallValuesZero(inout,len,thres)"
    /\ ncalls < MaxCalls
    /\ phase' = "running"
    /\ unit' = ForEach(call.len)
    /\ mem0' = mem
    /\ ncalls' = ncalls + 1
    /\ UNCHANGED <<call, kern, mem>>

\* what the out buffer holds before a two-buffer call
Filler == {Num(7)}

InitUnary ==
    /\ phase = "idle"
    /\ call = NoArgs
    /\ kern = NoKernel
    /\ \E a \in [Index -> Vals], b \in [Index -> Filler] : mem = [A |-> a, B |-> b]
    /\ mem0 = mem
    /\ unit = NoUnits
    /\ ncalls = 0

NextUnary ==
    \/ PowerScalar \/ PowerOutScalar \/ Power \/ PowerOut
    \/ SeqRootScalar \/ SeqRootOutScalar \/ SeqRoot \/ SeqRootOut
    \/ ReciprocalScalar \/ ReciprocalOutScalar \/ Reciprocal \/ ReciprocalOut
    \/ SetSmallValuesZero \/ SetSmallValuesZeroAgain
    \/ ElementStep \/ Return

SpecUnary == InitUnary /\ [][NextUnary]_vars


(***************************************************************************)
(* ratio                                                                   *)
(***************************************************************************)

RatioVals == {Num(-1), NZero, Zero, Num(1), Num(2)}

\* ratio(src, dest, len); dest is a second buffer or src itself
Ratio ==
    \E len \in Lens, dest \in {"A", "B"} :
        Enter([NoArgs EXCEPT !.fn = "ratio(src,dest,len)", !.dst = dest, !.len = len],
              Kernel("ratio", "A", dest, One, len, FALSE, DefaultThres), len)

\* a ratio without the guard
RatioWritesAlways(total) == TRUE

\* total != 0.0
RatioWrites(total) == Ne(total, Zero)

\* for (i = 0; i < s; i++) total += d_src[i]: one iteration of one work unit
RatioSum ==
    \E idx \in DOMAIN unit :
        LET u == unit[idx] IN
        /\ phase = "running" /\ kern.body = "ratio"
        /\ u.pc \in {"start", "sum"}
        /\ u.i < kern.len
        /\ unit' = [unit EXCEPT ![idx].pc = "sum",
                                ![idx].total = Add(u.total, mem[kern.src][u.i]),
                                ![idx].i = u.i + 1]
        /\ UNCHANGED <<phase, call, kern, mem, mem0, ncalls>>

\* if (total != 0.0) d_dest[idx] = d_src[idx] / total
RatioDivide ==
    \E idx \in DOMAIN unit :
        LET u == unit[idx] IN
        /\ phase = "running" /\ kern.body = "ratio"
        /\ u.pc \in {"start", "sum"}
        /\ u.i >= kern.len
        /\ mem' = IF RatioWrites(u.total)
                  THEN Store(mem, kern.dst, idx, Div(mem[kern.src][idx], u.total))
                  ELSE mem
        /\ unit' = [unit EXCEPT ![idx].pc = "done"]
        /\ UNCHANGED <<phase, call, kern, mem0, ncalls>>

InitRatio ==
    /\ phase = "idle"
    /\ call = NoArgs
    /\ kern = NoKernel
    /\ \E a \in [Index -> RatioVals], b \in [Index -> Filler] : mem = [A |-> a, B |-> b]
    /\ mem0 = mem
    /\ unit = NoUnits
    /\ ncalls = 0

NextRatio == Ratio \/ RatioSum \/ RatioDivide \/ Return

SpecRatio == InitRatio /\ [][NextRatio]_vars

(***************************************************************************)
(* signFlip                                                                *)
(***************************************************************************)

\* elements of the largest matrix the caller passes (n_rows * n_cols)
MaxCells == 4

\* columns of the widest matrix the caller passes
MaxCols == 2

FlipVals == {Num(-2), Num(-1), Zero, Num(1)}

\* the for_each of signFlip(inout, n_rows, n_cols): one work unit per column
SignFlipLaunch(n_rows, n_cols) ==
    /\ phase' = "running"
    /\ call' = [NoArgs EXCEPT !.fn = "signFlip(inout,n_rows,n_cols)",
                              !.n_rows = n_rows, !.n_cols = n_cols]
    /\ kern' = Kernel("signFlip", "A", "A", One, n_rows, FALSE, DefaultThres)
    \* int d_i = idx * m; math_t max = 0.0; int max_index = 0
    /\ unit' = [idx \in 0 .. (n_cols - 1) |-> [IdleUnit EXCEPT !.i = idx * n_rows]]
    /\ mem0' = mem
    /\ ncalls' = ncalls + 1
    /\ UNCHANGED mem

\* signFlip(inout, n_rows, n_cols) on a buffer of n_rows * n_cols elements
SignFlip ==
    \E n_rows \in 1 .. MaxCells, n_cols \in 1 .. MaxCols :
        /\ phase = "idle"
        /\ DOMAIN mem["A"] = 0 .. (n_rows * n_cols - 1)
        /\ SignFlipLaunch(n_rows, n_cols)

\* the caller applies signFlip to its result
SignFlipAgain ==
    /\ phase = "returned"
    /\ ncalls < MaxCalls
    /\ SignFlipLaunch(call.n_rows, call.n_cols)

\* a scan that compares the signed values
FlipAbsNone(val) == val

\* if (val < 0.0) val = -val
FlipAbs(val) == IF Lt(val, Zero) THEN Neg(val) ELSE val

\* a scan that lets a later tie win: val >= max
FlipExceedsOrTies(val, max) == Gt(val, max) \/ Eq(val, max)

\* if (val > max)
FlipExceeds(val, max) == Gt(val, max)

\* for (i = d_i; i < end; i++): one iteration of the scan of one column
SignFlipScan ==
    \E idx \in DOMAIN unit :
        LET u   == unit[idx]
            end == idx * kern.len + kern.len
            val == FlipAbs(mem["A"][u.i])
        IN
        /\ phase = "running" /\ kern.body = "signFlip"
        /\ u.pc \in {"start", "scan"}
        /\ u.i < end
        /\ unit' = [unit EXCEPT
               ![idx].pc = "scan",
               ![idx].max = IF FlipExceeds(val, u.max) THEN val ELSE u.max,
               ![idx].max_index = IF FlipExceeds(val, u.max) THEN u.i ELSE u.max_index,
               ![idx].i = u.i + 1,
               ![idx].acc = u.acc \cup {u.i}]
        /\ UNCHANGED <<phase, call, kern, mem, mem0, ncalls>>

\* if (inout[max_index] < 0.0): enter the negation loop, or finish
SignFlipTest ==
    \E idx \in DOMAIN unit :
        LET u   == unit[idx]
            end == idx * kern.len + kern.len
        IN
        /\ phase = "running" /\ kern.body = "signFlip"
        /\ u.pc \in {"start", "scan"}
        /\ u.i >= end
        /\ unit' = [unit EXCEPT
               ![idx].pc = IF Lt(mem["A"][u.max_index], Zero) THEN "negate" ELSE "done",
               ![idx].i = idx * kern.len,
               ![idx].acc = u.acc \cup {u.max_index}]
        /\ UNCHANGED <<phase, call, kern, mem, mem0, ncalls>>

\* for (i = d_i; i < end; i++) inout[i] = -inout[i]: one iteration
SignFlipNegate ==
    \E idx \in DOMAIN unit :
        LET u   == unit[idx]
            end == idx * kern.len + kern.len
        IN
        /\ phase = "running" /\ kern.body = "signFlip"
        /\ u.pc = "negate"
        /\ mem' = Store(mem, "A", u.i, Neg(mem["A"][u.i]))
        /\ unit' = [unit EXCEPT
               ![idx].pc = IF u.i + 1 < end THEN "negate" ELSE "done",
               ![idx].i = u.i + 1,
               ![idx].acc = u.acc \cup {u.i}]
        /\ UNCHANGED <<phase, call, kern, mem0, ncalls>>

InitSignFlip ==
    /\ phase = "idle"
    /\ call = NoArgs
    /\ kern = NoKernel
    /\ \E n \in 1 .. MaxCells :
           \E a \in [0 .. (n - 1) -> FlipVals] : mem = [A |-> a]
    /\ mem0 = mem
    /\ unit = NoUnits
    /\ ncalls = 0

NextSignFlip ==
    SignFlip \/ SignFlipAgain \/ SignFlipScan \/ SignFlipTest \/ SignFlipNegate \/ Return

SpecSignFlip == InitSignFlip /\ [][NextSignFlip]_vars

(***************************************************************************)
(* matrixVectorBinaryDivSkipZero                                           *)
(***************************************************************************)

DataVals == {Num(-1), Zero, Num(3)}
VecVals  == {Num(-1), Zero, Fin(5, 1, -11), SkipZeroEps, Num(2)}

\* the lambda of the return_zero branch
DivSkipZeroLambda(a, b) ==
    IF Lt(b, SkipZeroEps) THEN Zero ELSE Div(a, b)

\* a lambda that skips only b == 0
DivSkipKeepLambdaExactZero(a, b) ==
    IF Eq(b, Zero) THEN a ELSE Div(a, b)

\* the lambda of the other branch
DivSkipKeepLambda(a, b) ==
    IF Lt(b, SkipZeroEps) THEN a ELSE Div(a, b)

\* the entry of vec the broadcast engine pairs with matrix element i
\* (D entries in vec, N the other dimension)
VecIndex(i, D, N, rowMajor) == IF rowMajor THEN i % D ELSE i \div N

\* matrixVectorOp(data, vec, D, N, rowMajor, op): one work unit per matrix element
MatrixVectorOp(c, body, D, N, rowMajor) ==
    /\ phase = "idle"
    /\ phase' = "running"
    /\ call' = c
    /\ kern' = Kernel(body, "V", "A", One, D, rowMajor, DefaultThres)
    /\ unit' = ForEach(D * N)
    /\ mem0' = mem
    /\ ncalls' = ncalls + 1
    /\ UNCHANGED mem

\* matrixVectorBinaryDivSkipZero(data, vec, n_row, n_col, rowMajor, return_zero = false)
MatrixVectorBinaryDivSkipZero ==
    \E n_row \in 1 .. MaxCells, n_col \in 1 .. MaxCols,
       rowMajor \in BOOLEAN, return_zero \in BOOLEAN :
        /\ DOMAIN mem["A"] = 0 .. (n_row * n_col - 1)
        /\ DOMAIN mem["V"] = 0 .. (n_col - 1)
        /\ MatrixVectorOp(
               [NoArgs EXCEPT !.fn = "matrixVectorBinaryDivSkipZero", !.src = "V",
                              !.n_rows = n_row, !.n_cols = n_col,
                              !.rowMajor = rowMajor, !.flag = return_zero],
               IF return_zero THEN "divSkipZero" ELSE "divSkipKeep",
               n_col, n_row, rowMajor)

\* the broadcast engine's work unit for one matrix element: data[i] = op(data[i], vec[..])
MatrixVectorElement ==
    \E idx \in DOMAIN unit :
        LET a == mem["A"][idx]
            b == mem[kern.src][VecIndex(idx, kern.len, call.n_rows, kern.flag)]
        IN
        /\ phase = "running" /\ kern.body \in {"divSkipZero", "divSkipKeep"}
        /\ unit[idx].pc = "start"
        /\ mem' = Store(mem, "A", idx,
                        IF kern.body = "divSkipZero"
                        THEN DivSkipZeroLambda(a, b) ELSE DivSkipKeepLambda(a, b))
        /\ unit' = [unit EXCEPT ![idx].pc = "done"]
        /\ UNCHANGED <<phase, call, kern, mem0, ncalls>>

InitMatrixVector ==
    /\ phase = "idle"
    /\ call = NoArgs
    /\ kern = NoKernel
    /\ \E n \in 1 .. MaxCells, c \in 1 .. MaxCols :
           \E a \in [0 .. (n - 1) -> DataVals], v \in [0 .. (c - 1) -> VecVals] :
               /\ n % c = 0
               /\ mem = [A |-> a, V |-> v]
    /\ mem0 = mem
    /\ unit = NoUnits
    /\ ncalls = 0

NextMatrixVector == MatrixVectorBinaryDivSkipZero \/ MatrixVectorElement \/ Return

SpecMatrixVector == InitMatrixVector /\ [][NextMatrixVector]_vars

(***************************************************************************)
(* Claims on the elementwise operators                                     *)
(***************************************************************************)

Returned(fn) == phase = "returned" /\ call.fn = fn

\* buffer buf holds f(original src element) below len and its original value above
MapsTo(buf, f(_)) ==
    \A i \in Index :
        mem[buf][i] = IF i < call.len THEN f(mem0["A"][i]) ELSE mem0[buf][i]

PowerOne(x)         == PowerLambda(x, One)
SeqRootOne(x)       == SeqRootLambda(x, One)
SeqRootOutOne(x)    == SeqRootOutLambda(x, One, FALSE)
ReciprocalOne(x)    == ReciprocalLambda(x, One, call.flag, call.thres)
ReciprocalOutOne(x) == ReciprocalOutLambda(x, One)

DelegatesPower ==
    /\ Returned("power(inout,len)") => MapsTo("A", PowerOne)
    /\ Returned("power(in,out,len)") => MapsTo("B", PowerOne)

DelegatesSeqRoot ==
    /\ Returned("seqRoot(inout,len)") => MapsTo("A", SeqRootOne)
    /\ Returned("seqRoot(in,out,len)") => MapsTo("B", SeqRootOutOne)

DelegatesReciprocal ==
    /\ Returned("reciprocal(inout,len,setzero,thres)") => MapsTo("A", ReciprocalOne)
    /\ Returned("reciprocal(in,out,len)") => MapsTo("B", ReciprocalOutOne)

\* C1: every scalar-omitted overload leaves exactly what the scalar-taking form leaves
\* when called with scalar = 1 and the same remaining arguments (len, and for the
\* in-place reciprocal setzero and thres).
C1_ScalarOmittedIsScalarOne ==
    DelegatesPower /\ DelegatesSeqRoot /\ DelegatesReciprocal

\* C2: after the in-place reciprocal(inout, scalar, len, setzero, thres), every element
\* below len is 0 if setzero and its original x <= thres, and scalar / x in every
\* other case; the elements from len on are untouched.
C2_ReciprocalInPlace ==
    Returned("reciprocal(inout,scalar,len,setzero,thres)") =>
        /\ \A i \in Index :
              LET x == mem0["A"][i] IN
              mem["A"][i] =
                  IF i >= call.len THEN x
                  ELSE IF call.flag /\ Le(x, call.thres) THEN Zero
                  ELSE Div(call.scalar, x)
        /\ mem["B"] = mem0["B"]

C2_Witness ==
    /\ Returned("reciprocal(inout,scalar,len,setzero,thres)")
    /\ call.len = 1 /\ call.flag /\ call.thres = Num(1) /\ call.scalar = Num(2)
    /\ mem0["A"][0] = Num(1) /\ mem["A"][0] = Zero
    /\ mem["A"][1] = Num(4)

\* C8: one in-place setSmallValuesZero(inout, len, thres) sets x to 0 when x <= thres
\* and leaves it otherwise, and a second one with the same thres changes nothing,
\* for thresholds of either sign and zero.
C8_SetSmallValuesZeroIdempotent ==
    Returned("setSmallValuesZero(inout,len,thres)") =>
        /\ ncalls = 1 =>
              \A i \in Index :
                  LET x == mem0["A"][i] IN
                  mem["A"][i] = IF i < call.len /\ Le(x, call.thres) THEN Zero ELSE x
        /\ ncalls > 1 => mem = mem0

C8_Witness ==
    /\ Returned("setSmallValuesZero(inout,len,thres)")
    /\ ncalls = 2 /\ call.len = MaxLen /\ call.thres = Num(-1)
    /\ mem["A"][0] = Zero /\ mem["A"][1] = Num(4)

FiniteNonNegative(s) == IsFinite(s) /\ ~Lt(s, Zero)

\* C10 as claimed: with set_neg_zero the two-buffer seqRoot writes 0 for x < 0 and
\* otherwise sqrt(x * s) of an argument x * s >= 0, for scalars s of either sign.
C10_NeverRootOfNegative ==
    Returned("seqRoot(in,out,scalar,len,set_neg_zero)") /\ call.flag =>
        \A i \in Index :
            LET x == mem0["A"][i] IN
            i < call.len =>
                IF Lt(x, Zero) THEN mem["B"][i] = Zero
                ELSE /\ mem["B"][i] = Sqrt(Mul(x, call.scalar))
                     /\ ~Lt(Mul(x, call.scalar), Zero)

\* C10 amended: the same for finite elements and finite scalars s >= 0; the guard
\* tests the element, not the product.
C10_NeverRootOfNegative_NonNegScalar ==
    Returned("seqRoot(in,out,scalar,len,set_neg_zero)") /\ call.flag
        /\ FiniteNonNegative(call.scalar) =>
        \A i \in Index :
            LET x == mem0["A"][i] IN
            i < call.len =>
                IF Lt(x, Zero) THEN mem["B"][i] = Zero
                ELSE /\ mem["B"][i] = Sqrt(Mul(x, call.scalar))
                     /\ ~Lt(Mul(x, call.scalar), Zero)

C10_Witness ==
    /\ Returned("seqRoot(in,out,scalar,len,set_neg_zero)") /\ call.flag
    /\ call.scalar = Num(2) /\ call.len = MaxLen
    /\ mem0["A"][0] = Num(-1) /\ mem["B"][0] = Zero
    /\ mem0["A"][1] = Fin(1, 2, 0) /\ mem["B"][1] = One


(***************************************************************************)
(* Claims on ratio                                                         *)
(***************************************************************************)

\* buf[0] + ... + buf[n - 1], added left to right from 0
RECURSIVE SumTo(_, _)
SumTo(buf, n) == IF n = 0 THEN Zero ELSE Add(SumTo(buf, n - 1), buf[n - 1])

OriginalTotal == SumTo(mem0["A"], call.len)

\* C3: ratio(src, dst, len) with dst distinct from src leaves every dst[i] as it was
\* when the sum of src[0..len) is 0, and otherwise sets dst[i], i < len, to
\* src[i] / sum; src is unchanged either way.
C3_RatioDistinctBuffers ==
    Returned("ratio(src,dest,len)") /\ call.dst = "B" =>
        /\ mem["A"] = mem0["A"]
        /\ \A i \in Index :
              mem["B"][i] =
                  IF i < call.len /\ Ne(OriginalTotal, Zero)
                  THEN Div(mem0["A"][i], OriginalTotal)
                  ELSE mem0["B"][i]

\* src = [1, -1] cancels: dst keeps what it held
C3_WitnessCancels ==
    /\ Returned("ratio(src,dest,len)") /\ call.dst = "B" /\ call.len = 2
    /\ mem0["A"][0] = Num(1) /\ mem0["A"][1] = Num(-1)
    /\ mem["B"][0] = Num(7) /\ mem["B"][1] = Num(7)

\* src = [1, 1, ...]: dst = [1/2, 1/2, ...]
C3_WitnessDivides ==
    /\ Returned("ratio(src,dest,len)") /\ call.dst = "B" /\ call.len = 2
    /\ mem0["A"][0] = Num(1) /\ mem0["A"][1] = Num(1)
    /\ mem["B"][0] = Fin(1, 2, 0) /\ mem["B"][1] = Fin(1, 2, 0)

\* C4: in ratio, under every interleaving, every work unit that writes divides by the
\* sum of the original src values, whether dst is a second buffer or src itself.
C4_OneOriginalTotal ==
    kern.body = "ratio" =>
        \A idx \in DOMAIN unit :
            unit[idx].pc = "done" /\ RatioWrites(unit[idx].total) =>
                /\ unit[idx].total = OriginalTotal
                /\ mem[call.dst][idx] = Div(mem0["A"][idx], OriginalTotal)

(***************************************************************************)
(* Claims on signFlip                                                      *)
(***************************************************************************)

Column(idx) == (idx * call.n_rows) .. (idx * call.n_rows + call.n_rows - 1)

Columns == 0 .. (call.n_cols - 1)

AbsOf(x) == IF SignBit(x) THEN Neg(x) ELSE x

\* the elements of column idx of matrix a whose absolute value no other one exceeds
MaxAbs(a, idx) == {i \in Column(idx) : \A j \in Column(idx) : ~Lt(AbsOf(a[i]), AbsOf(a[j]))}

Least(S) == CHOOSE i \in S : \A j \in S : i <= j

\* the earliest element of maximum absolute value
EarliestMaxAbs(a, idx) == Least(MaxAbs(a, idx))

\* a column of zeros never exceeds the running maximum, which starts at 0
ExceedsZero(a, idx) == Gt(AbsOf(a[EarliestMaxAbs(a, idx)]), Zero)

MustFlip(a, idx) == ExceedsZero(a, idx) /\ Lt(a[EarliestMaxAbs(a, idx)], Zero)

C5_WitnessFlipped ==
    /\ Returned("signFlip(inout,n_rows,n_cols)") /\ ncalls = 1
    /\ call.n_rows = 3 /\ call.n_cols = 1
    /\ mem0["A"] = [i \in 0 .. 2 |-> IF i = 1 THEN Num(-2) ELSE Num(1)]
    /\ mem["A"] = [i \in 0 .. 2 |-> IF i = 1 THEN Num(2) ELSE Num(-1)]

OwnResult(a, idx, i) == IF MustFlip(a, idx) THEN Neg(a[i]) ELSE a[i]

\* C9: no work unit of signFlip reads or writes outside its column, and what a column
\* holds at the end (compared with math_t's ==) is decided by its own original
\* values, columns of zeros included.
C9_ColumnsDoNotInteract ==
    kern.body = "signFlip" =>
        /\ \A idx \in DOMAIN unit : unit[idx].acc \subseteq Column(idx)
        /\ phase = "returned" /\ ncalls = 1 =>
              \A idx \in Columns : \A i \in Column(idx) :
                  Eq(mem["A"][i], OwnResult(mem0["A"], idx, i))


(***************************************************************************)
(* Claims on matrixVectorBinaryDivSkipZero                                 *)
(***************************************************************************)

\* C7: after matrixVectorBinaryDivSkipZero every matrix element a paired with vector
\* entry b is 0 (return_zero) or a (otherwise) when b < 1e-10, zero and negative b
\* included, and a / b when b >= 1e-10; vec is not modified.
C7_DivSkipZero ==
    Returned("matrixVectorBinaryDivSkipZero") =>
        /\ mem["V"] = mem0["V"]
        /\ \A i \in DOMAIN mem["A"] :
              LET a == mem0["A"][i]
                  b == mem0["V"][VecIndex(i, call.n_cols, call.n_rows, call.rowMajor)]
              IN  mem["A"][i] =
                      IF Lt(b, Fin(1, 1, -10))
                      THEN (IF call.flag THEN Zero ELSE a)
                      ELSE Div(a, b)

\* a 2 x 2 matrix of 3s against vec = [-1, 1e-10], return_zero = false, column-major:
\* the first column is kept and the second divided
C7_Witness ==
    /\ Returned("matrixVectorBinaryDivSkipZero")
    /\ call.n_rows = 2 /\ call.n_cols = 2 /\ ~call.flag /\ ~call.rowMajor
    /\ mem0["V"][0] = Num(-1) /\ mem0["V"][1] = SkipZeroEps
    /\ \A i \in 0 .. 3 : mem0["A"][i] = Num(3)
    /\ mem["A"][0] = Num(3) /\ mem["A"][1] = Num(3)
    /\ mem["A"][2] = Fin(3, 1, 10) /\ mem["A"][3] = Fin(3, 1, 10)

====
